---------------------------- MODULE Spec2Model ----------------------------
(* Model of scripts/analyze-csv.py (the table entry point) and             *)
(* scripts/generate-csv-stats.py (the JSON entry point).                   *)
(*                                                                         *)
(* Text is modelled as a sequence of one-character strings, so that        *)
(* split, strip, replace, startswith, endswith and slicing act on          *)
(* characters.  A publication-date string is modelled after lexing, as a   *)
(* sequence of lexemes: runs of whitespace, date-shaped words              *)
(* (digits-digits-digits), time-shaped words (digits:digits:digits) and    *)
(* other words.                                                            *)
EXTENDS Integers, Sequences, FiniteSets, TLC

VARIABLES
    file,               \* the CSV file as csv.DictReader yields it
    a_pc,               \* analyze-csv.py: "loop" | "report" | "done"
    a_i,                \* analyze-csv.py: rows consumed from the reader
    a_category_stats,   \* analyze-csv.py: category_stats
    a_geo_stats,        \* analyze-csv.py: geo_stats
    a_template_stats,   \* analyze-csv.py: template_stats
    a_out,              \* analyze-csv.py: the three printed tables
    g_pc,               \* generate-csv-stats.py: "read" | "loop" | "report" | "done"
    rows,               \* generate-csv-stats.py: rows
    g_i,                \* generate-csv-stats.py: rows consumed by the for loop
    g_category_stats,   \* generate-csv-stats.py: category_stats
    g_geo_stats,        \* generate-csv-stats.py: geo_stats
    g_template_stats,   \* generate-csv-stats.py: template_stats
    output              \* generate-csv-stats.py: output

vars == <<file, a_pc, a_i, a_category_stats, a_geo_stats, a_template_stats, a_out,
          g_pc, rows, g_i, g_category_stats, g_geo_stats, g_template_stats, output>>

a_vars == <<a_pc, a_i, a_category_stats, a_geo_stats, a_template_stats, a_out>>
g_vars == <<g_pc, rows, g_i, g_category_stats, g_geo_stats, g_template_stats, output>>

-----------------------------------------------------------------------------
(* Bounds *)

MaxRows == 3

-----------------------------------------------------------------------------
(* Python values *)

\* None, as csv.DictReader fills a field a short row lacks (restval)
None == <<"None">>
NoneDate == <<[t |-> "none", a |-> 0, b |-> 0, c |-> 0]>>

\* truthiness of a str-or-None value
Truthy(v) == v # None /\ v # <<>>
TruthyDate(v) == v # NoneDate /\ v # <<>>

NULL == <<"N", "U", "L", "L">>
TemplatePrefix == <<"t", "e", "m", "p", "l", "a", "t", "e", "s", "/", "p", "o", "s", "t", "-">>
PhpSuffix == <<".", "p", "h", "p">>
PrefixLen == 15
SuffixLen == 4

Drop(s, n) == SubSeq(s, n + 1, Len(s))
Take(s, n) == SubSeq(s, 1, n)

StartsWith(s, p) == Len(s) >= Len(p) /\ Take(s, Len(p)) = p
EndsWith(s, p) == Len(s) >= Len(p) /\ Drop(s, Len(s) - Len(p)) = p

\* str.replace(old, ''): every non-overlapping occurrence, left to right
RECURSIVE Replace(_, _)
Replace(s, old) ==
    IF Len(s) < Len(old) THEN s
    ELSE IF Take(s, Len(old)) = old THEN Replace(Drop(s, Len(old)), old)
    ELSE <<s[1]>> \o Replace(Tail(s), old)

IsSpace(ch) == ch = " "

\* str.strip()
RECURSIVE LStrip(_)
LStrip(s) == IF s # <<>> /\ IsSpace(s[1]) THEN LStrip(Tail(s)) ELSE s
RECURSIVE RStrip(_)
RStrip(s) == IF s # <<>> /\ IsSpace(s[Len(s)]) THEN RStrip(Take(s, Len(s) - 1)) ELSE s
Strip(s) == RStrip(LStrip(s))

\* str.split(','): the pieces between commas, empty pieces kept
RECURSIVE SplitFrom(_, _)
SplitFrom(s, cur) ==
    IF s = <<>> THEN <<cur>>
    ELSE IF s[1] = "," THEN <<cur>> \o SplitFrom(Tail(s), <<>>)
    ELSE SplitFrom(Tail(s), Append(cur, s[1]))
Split(s) == SplitFrom(s, <<>>)

-----------------------------------------------------------------------------
(* Dates *)

WS == [t |-> "ws", a |-> 0, b |-> 0, c |-> 0]
DateTok(y, m, d) == [t |-> "date", a |-> y, b |-> m, c |-> d]
TimeTok(h, mi, s) == [t |-> "time", a |-> h, b |-> mi, c |-> s]
Junk == [t |-> "junk", a |-> 0, b |-> 0, c |-> 0]

\* str.split() with no argument: the words between runs of whitespace
PySplit(d) == SelectSeq(d, LAMBDA x : x.t # "ws")

IsLeap(y) == y % 4 = 0 /\ (y % 100 # 0 \/ y % 400 = 0)
DaysInMonth(y, m) ==
    IF m = 2 THEN (IF IsLeap(y) THEN 29 ELSE 28)
    ELSE IF m \in {4, 6, 9, 11} THEN 30 ELSE 31
ValidDate(y, m, d) ==
    /\ y >= 1 /\ y <= 9999
    /\ m >= 1 /\ m <= 12
    /\ d >= 1 /\ d <= DaysInMonth(y, m)
ValidTime(h, mi, s) ==
    /\ h >= 0 /\ h <= 23
    /\ mi >= 0 /\ mi <= 59
    /\ s >= 0 /\ s <= 59

\* a datetime object
Datetime(y, m, d, h, mi, s) == [y |-> y, m |-> m, d |-> d, h |-> h, mi |-> mi, s |-> s]

RECURSIVE DaysBeforeMonth(_, _)
DaysBeforeMonth(y, m) == IF m <= 1 THEN 0 ELSE DaysBeforeMonth(y, m - 1) + DaysInMonth(y, m - 1)
\* date.toordinal()
ToOrdinal(dt) ==
    LET y1 == dt.y - 1
    IN y1 * 365 + (y1 \div 4) - (y1 \div 100) + (y1 \div 400) + DaysBeforeMonth(dt.y, dt.m) + dt.d
SecondOfDay(dt) == dt.h * 3600 + dt.mi * 60 + dt.s

\* datetime ordering (year, month, day, hour, minute, second)
DtKey(dt) == <<dt.y, dt.m, dt.d, dt.h, dt.mi, dt.s>>
RECURSIVE LexLE(_, _)
LexLE(x, y) ==
    IF x = <<>> THEN TRUE
    ELSE IF x[1] < y[1] THEN TRUE
    ELSE IF x[1] > y[1] THEN FALSE
    ELSE LexLE(Tail(x), Tail(y))
DtLE(x, y) == LexLE(DtKey(x), DtKey(y))

\* (later - earlier).days: timedelta normalises seconds into 0..86399
TimedeltaDays(later, earlier) ==
    (ToOrdinal(later) - ToOrdinal(earlier))
        + ((SecondOfDay(later) - SecondOfDay(earlier) - ((SecondOfDay(later) - SecondOfDay(earlier)) % 86400)) \div 86400)

\* list.sort() / sorted() of datetimes: ascending insertion sort
RECURSIVE InsertDt(_, _)
InsertDt(sorted, x) ==
    IF sorted = <<>> THEN <<x>>
    ELSE IF DtLE(sorted[Len(sorted)], x) THEN Append(sorted, x)
    ELSE Append(InsertDt(Take(sorted, Len(sorted) - 1), x), sorted[Len(sorted)])
RECURSIVE SortDates(_)
SortDates(ds) ==
    IF ds = <<>> THEN <<>>
    ELSE InsertDt(SortDates(Take(ds, Len(ds) - 1)), ds[Len(ds)])

\* strftime('%Y-%m-%d')
Strftime(dt) == <<dt.y, "-", dt.m, "-", dt.d>>

NA == <<"N/A">>

\* f"{num / den:.1f}" in tenths: the nearest tenth, an exact half going to
\* the even tenth (a half is exactly representable while den < 20)
Fmt1(num, den) ==
    LET q == (10 * num) \div den
        r == (10 * num) % den
    IN IF 2 * r < den THEN q
       ELSE IF 2 * r > den THEN q + 1
       ELSE IF q % 2 = 0 THEN q ELSE q + 1

-----------------------------------------------------------------------------
(* The statistics dictionaries: a defaultdict keeps insertion order, so a  *)
(* dictionary is the sequence of its items [name, count, dates].           *)

RECURSIVE Find(_, _)
Find(stats, k) ==
    IF stats = <<>> THEN 0
    ELSE IF stats[Len(stats)].name = k THEN Len(stats)
    ELSE Find(Take(stats, Len(stats) - 1), k)

Keys(stats) == {stats[i].name : i \in 1..Len(stats)}

\* stats[k]: the default factory makes {"count": 0, "dates": []}
Touch(stats, k) ==
    IF Find(stats, k) # 0 THEN stats
    ELSE Append(stats, [name |-> k, count |-> 0, dates |-> <<>>])

\* stats[k]["count"] += 1
IncrCount(stats, k) ==
    LET s == Touch(stats, k)
        i == Find(s, k)
    IN [s EXCEPT ![i].count = @ + 1]

\* stats[k]["dates"].append(d)
AppendDate(stats, k, d) ==
    LET s == Touch(stats, k)
        i == Find(s, k)
    IN [s EXCEPT ![i].dates = Append(@, d)]


-----------------------------------------------------------------------------
(* generate-csv-stats.py: the row loop.  Every row csv.DictReader yields   *)
(* holds all four keys (a short row gets None), so row.get(key, default)   *)
(* is row[key].                                                            *)

\* mutant of G_Bucket: the count moved under "if date_str"
G_BucketCountsOnlyDated(stats, key, date_str) ==
    IF TruthyDate(date_str)
    THEN AppendDate(IncrCount(stats, key), key, date_str)
    ELSE Touch(stats, key)

\* lines 28-30, 34-36 and 46-48: count the row, keep its date string when truthy
G_Bucket(stats, key, date_str) ==
    LET counted == IncrCount(stats, key)
    IN IF TruthyDate(date_str) THEN AppendDate(counted, key, date_str) ELSE counted

\* lines 25-30: for cat in category.split(',')
RECURSIVE G_CategoryLoop(_, _, _)
G_CategoryLoop(stats, pieces, date_str) ==
    IF pieces = <<>> THEN stats
    ELSE LET cat == Strip(pieces[1])
             next == IF cat # <<>> THEN G_Bucket(stats, cat, date_str) ELSE stats
         IN G_CategoryLoop(next, Tail(pieces), date_str)

G_Category(stats, category, date_str) ==
    IF Truthy(category) /\ category # NULL
    THEN G_CategoryLoop(stats, Split(category), date_str)
    ELSE stats

\* mutant of G_Geo: the sentinel "NULL" taken for a value
G_GeoCountsNull(stats, geo, date_str) ==
    IF Truthy(geo) THEN G_Bucket(stats, geo, date_str) ELSE stats

G_Geo(stats, geo, date_str) ==
    IF Truthy(geo) /\ geo # NULL THEN G_Bucket(stats, geo, date_str) ELSE stats

\* lines 41-45: clean_template
CleanTemplate(template) ==
    LET unprefixed == IF StartsWith(template, TemplatePrefix)
                      THEN Drop(template, PrefixLen) ELSE template
    IN IF EndsWith(unprefixed, PhpSuffix)
       THEN Take(unprefixed, Len(unprefixed) - SuffixLen) ELSE unprefixed

\* mutant of G_Template: the sentinel "NULL" taken for a template
G_TemplateCountsNull(stats, template, date_str) ==
    IF Truthy(template)
    THEN G_Bucket(stats, CleanTemplate(template), date_str)
    ELSE stats

G_Template(stats, template, date_str) ==
    IF Truthy(template) /\ template # NULL
    THEN G_Bucket(stats, CleanTemplate(template), date_str)
    ELSE stats

-----------------------------------------------------------------------------
(* generate-csv-stats.py: calculate_stats *)

\* datetime.strptime(d.split()[0], '%Y-%m-%d') succeeds
G_Parses(d) ==
    /\ PySplit(d) # <<>>
    /\ PySplit(d)[1].t = "date"
    /\ ValidDate(PySplit(d)[1].a, PySplit(d)[1].b, PySplit(d)[1].c)
G_Parse(d) == LET w == PySplit(d)[1] IN Datetime(w.a, w.b, w.c, 0, 0, 0)

\* lines 57-62: parsed_dates
RECURSIVE ParsedDates(_)
ParsedDates(dates) ==
    IF dates = <<>> THEN <<>>
    ELSE IF G_Parses(dates[1]) THEN <<G_Parse(dates[1])>> \o ParsedDates(Tail(dates))
    ELSE ParsedDates(Tail(dates))

\* mutant of FrequencyDivisor: the intervals between the parsed dates
FrequencyDivisorParsed(count, parsed_dates) == Len(parsed_dates) - 1

\* line 74: count - 1
FrequencyDivisor(count, parsed_dates) == count - 1

\* lines 69-79
G_Frequency(count, parsed_dates) ==
    IF Len(parsed_dates) > 1
    THEN LET total_days == TimedeltaDays(parsed_dates[Len(parsed_dates)], parsed_dates[1])
         IN IF total_days > 0 /\ count > 1
            THEN LET tenths == Fmt1(total_days, FrequencyDivisor(count, parsed_dates))
                 IN <<"1 every ", tenths \div 10, ".", tenths % 10, " days">>
            ELSE NA
    ELSE NA

\* mutant of G_LastEntry: the earliest date taken for the latest
G_LastEntryFirst(parsed_dates) == Strftime(parsed_dates[1])

\* line 66
G_LastEntry(parsed_dates) == Strftime(parsed_dates[Len(parsed_dates)])

\* lines 53-89: one entry of results
StatResult(item) ==
    LET parsed_dates == SortDates(ParsedDates(item.dates))
    IN [name |-> item.name,
        count |-> item.count,
        lastEntry |-> IF parsed_dates # <<>> THEN G_LastEntry(parsed_dates) ELSE NA,
        frequency |-> IF parsed_dates # <<>> THEN G_Frequency(item.count, parsed_dates) ELSE NA]

\* sort(key=count, reverse=True): stable, entries of equal count keep their order
\* mutant of InsertByCount: reverse=True forgotten
RECURSIVE InsertByCountAscending(_, _)
InsertByCountAscending(sorted, x) ==
    IF sorted = <<>> THEN <<x>>
    ELSE IF sorted[Len(sorted)].count <= x.count THEN Append(sorted, x)
    ELSE Append(InsertByCountAscending(Take(sorted, Len(sorted) - 1), x), sorted[Len(sorted)])

RECURSIVE InsertByCount(_, _)
InsertByCount(sorted, x) ==
    IF sorted = <<>> THEN <<x>>
    ELSE IF sorted[Len(sorted)].count >= x.count THEN Append(sorted, x)
    ELSE Append(InsertByCount(Take(sorted, Len(sorted) - 1), x), sorted[Len(sorted)])
RECURSIVE SortByCountDesc(_)
SortByCountDesc(items) ==
    IF items = <<>> THEN <<>>
    ELSE InsertByCount(SortByCountDesc(Take(items, Len(items) - 1)), items[Len(items)])

calculate_stats(stats_dict) ==
    SortByCountDesc([i \in 1..Len(stats_dict) |-> StatResult(stats_dict[i])])

-----------------------------------------------------------------------------
(* analyze-csv.py *)

\* datetime.strptime(date_str, '%Y-%m-%d %H:%M:%S') succeeds; None raises too
A_Parses(date_str) ==
    /\ date_str # NoneDate
    /\ Len(date_str) = 3
    /\ date_str[1].t = "date" /\ ValidDate(date_str[1].a, date_str[1].b, date_str[1].c)
    /\ date_str[2].t = "ws"
    /\ date_str[3].t = "time" /\ ValidTime(date_str[3].a, date_str[3].b, date_str[3].c)
A_Parse(date_str) ==
    Datetime(date_str[1].a, date_str[1].b, date_str[1].c,
             date_str[3].a, date_str[3].b, date_str[3].c)

\* lines 25-26, 31-32, 39-40
A_Bucket(stats, key, date) == AppendDate(IncrCount(stats, key), key, date)

A_Category(stats, category, date) ==
    IF Truthy(category) /\ category # NULL THEN A_Bucket(stats, category, date) ELSE stats

A_Geo(stats, geo, date) ==
    IF Truthy(geo) /\ geo # NULL THEN A_Bucket(stats, geo, date) ELSE stats

\* line 38: formatted_template
FormatTemplate(template) == Replace(Replace(template, TemplatePrefix), PhpSuffix)

A_Template(stats, template, date) ==
    IF Truthy(template) /\ template # NULL
    THEN A_Bucket(stats, FormatTemplate(template), date)
    ELSE stats

\* lines 49: total_days
A_TotalDays(sorted_dates) == TimedeltaDays(sorted_dates[Len(sorted_dates)], sorted_dates[1])

calculate_frequency(dates) ==
    IF Len(dates) < 2 THEN NA
    ELSE LET total_days == A_TotalDays(SortDates(dates))
         IN IF total_days = 0 THEN <<"< 1 day">>
            ELSE LET tenths == Fmt1(total_days, Len(dates) - 1)
                 IN <<tenths \div 10, ".", tenths % 10, " days">>

NameWidth == 45
NameKept == 42

\* lines 65-71: one printed line; name is the loop variable behind display_name
TableLine(item) ==
    [name |-> item.name,
     display_name |-> IF Len(item.name) > NameWidth
                      THEN Take(item.name, NameKept) \o <<".", ".", ".">>
                      ELSE item.name,
     count |-> item.count,
     last_date |-> IF item.dates # <<>>
                   THEN Strftime(SortDates(item.dates)[Len(item.dates)])
                   ELSE NA,
     frequency |-> calculate_frequency(item.dates)]

print_table(title, stats) ==
    LET sorted_stats == SortByCountDesc(stats)
    IN [title |-> title, lines |-> [i \in 1..Len(sorted_stats) |-> TableLine(sorted_stats[i])]]

-----------------------------------------------------------------------------
(* The two scripts as state machines over one input file *)

Row(date_str, category, geo, template) ==
    [data_pubblicazione |-> date_str, category |-> category,
     geo |-> geo, template_articolo |-> template]

NoOutput == [categories |-> <<>>, geos |-> <<>>, templates |-> <<>>, totalArticles |-> 0]

InitScripts ==
    /\ a_pc = "loop" /\ a_i = 0
    /\ a_category_stats = <<>> /\ a_geo_stats = <<>> /\ a_template_stats = <<>>
    /\ a_out = <<>>
    /\ g_pc = "read" /\ rows = <<>> /\ g_i = 0
    /\ g_category_stats = <<>> /\ g_geo_stats = <<>> /\ g_template_stats = <<>>
    /\ output = NoOutput

\* mutant of A_Row: a row whose date fails to parse is still counted
A_RowCountsUndated ==
    /\ a_pc = "loop" /\ a_i < Len(file)
    /\ a_i' = a_i + 1
    /\ LET row == file[a_i + 1]
           date_str == row.data_pubblicazione
       IN IF ~A_Parses(date_str)
          THEN /\ a_category_stats' = IF Truthy(row.category) /\ row.category # NULL
                                      THEN IncrCount(a_category_stats, row.category)
                                      ELSE a_category_stats
               /\ a_geo_stats' = IF Truthy(row.geo) /\ row.geo # NULL
                                 THEN IncrCount(a_geo_stats, row.geo)
                                 ELSE a_geo_stats
               /\ a_template_stats' = IF Truthy(row.template_articolo) /\ row.template_articolo # NULL
                                      THEN IncrCount(a_template_stats, FormatTemplate(row.template_articolo))
                                      ELSE a_template_stats
          ELSE /\ a_category_stats' = A_Category(a_category_stats, row.category, A_Parse(date_str))
               /\ a_geo_stats' = A_Geo(a_geo_stats, row.geo, A_Parse(date_str))
               /\ a_template_stats' = A_Template(a_template_stats, row.template_articolo, A_Parse(date_str))
    /\ UNCHANGED <<file, a_pc, a_out, g_vars>>

\* analyze-csv.py lines 15-40: one iteration of "for row in reader"
A_Row ==
    /\ a_pc = "loop" /\ a_i < Len(file)
    /\ a_i' = a_i + 1
    /\ LET row == file[a_i + 1]
           date_str == row.data_pubblicazione
       IN IF ~A_Parses(date_str)
          THEN UNCHANGED <<a_category_stats, a_geo_stats, a_template_stats>>
          ELSE /\ a_category_stats' = A_Category(a_category_stats, row.category, A_Parse(date_str))
               /\ a_geo_stats' = A_Geo(a_geo_stats, row.geo, A_Parse(date_str))
               /\ a_template_stats' = A_Template(a_template_stats, row.template_articolo, A_Parse(date_str))
    /\ UNCHANGED <<file, a_pc, a_out, g_vars>>

\* analyze-csv.py lines 73-80: the reader is exhausted, the tables are printed
A_Report ==
    /\ a_pc = "loop" /\ a_i = Len(file)
    /\ a_out' = <<print_table("CATEGORY STATISTICS", a_category_stats),
                  print_table("GEO STATISTICS", a_geo_stats),
                  print_table("TEMPLATE STATISTICS", a_template_stats)>>
    /\ a_pc' = "done"
    /\ UNCHANGED <<file, a_i, a_category_stats, a_geo_stats, a_template_stats, g_vars>>

\* generate-csv-stats.py lines 7-9: rows = list(reader)
G_Read ==
    /\ g_pc = "read"
    /\ rows' = file
    /\ g_pc' = "loop"
    /\ UNCHANGED <<file, a_vars, g_i, g_category_stats, g_geo_stats, g_template_stats, output>>

\* generate-csv-stats.py lines 16-48: one iteration of "for row in rows"
G_Row ==
    /\ g_pc = "loop" /\ g_i < Len(rows)
    /\ g_i' = g_i + 1
    /\ LET row == rows[g_i + 1]
           date_str == row.data_pubblicazione
       IN /\ g_category_stats' = G_Category(g_category_stats, row.category, date_str)
          /\ g_geo_stats' = G_Geo(g_geo_stats, row.geo, date_str)
          /\ g_template_stats' = G_Template(g_template_stats, row.template_articolo, date_str)
    /\ UNCHANGED <<file, a_vars, g_pc, rows, output>>

\* generate-csv-stats.py lines 95-106: the results and the JSON object
G_Output ==
    /\ g_pc = "loop" /\ g_i = Len(rows)
    /\ output' = [categories |-> calculate_stats(g_category_stats),
                  geos |-> calculate_stats(g_geo_stats),
                  templates |-> calculate_stats(g_template_stats),
                  totalArticles |-> Len(rows)]
    /\ g_pc' = "done"
    /\ UNCHANGED <<file, a_vars, rows, g_i, g_category_stats, g_geo_stats, g_template_stats>>

NextA == A_Row \/ A_Report
NextG == G_Read \/ G_Row \/ G_Output
Next == A_Row \/ A_Report \/ G_Read \/ G_Row \/ G_Output

-----------------------------------------------------------------------------
(* Input files *)

Files(RowSet) == UNION {[1..n -> RowSet] : n \in 0..MaxRows}

\* texts
Str_a == <<"a">>
Str_b == <<"b">>
Str_a_b == <<"a", ",", " ", "b">>
Str_a_a == <<"a", ",", "a">>
Str_b_blank == <<" ", "b", " ", ",", " ", ",">>
Str_x == <<"x">>
Str_y == <<"y">>
Str_news == <<"n", "e", "w", "s">>
Tpl_news == TemplatePrefix \o Str_news \o PhpSuffix
Tpl_a_php == TemplatePrefix \o <<"a">> \o PhpSuffix \o PhpSuffix
Tpl_page == <<"p", "a", "g", "e">>

\* publication dates
Stamp(y, m, d, h, mi, s) == <<DateTok(y, m, d), WS, TimeTok(h, mi, s)>>
Date_Jan01_late == Stamp(2024, 1, 1, 23, 0, 0)
Date_Jan02_early == Stamp(2024, 1, 2, 1, 0, 0)
Date_Jan11 == Stamp(2024, 1, 11, 8, 30, 0)
Date_Mar01 == Stamp(2024, 3, 1, 0, 0, 0)
Date_Dec31 == Stamp(2023, 12, 31, 23, 59, 59)
Date_only_Jan01 == <<DateTok(2024, 1, 1)>>
Date_Feb30 == Stamp(2024, 2, 30, 10, 0, 0)
Date_junk == <<Junk>>
Date_blank == <<WS>>
Date_empty == <<>>

\* rows for both scripts: every grouping field populated, NULL, empty and absent
RowsBoth ==
    { Row(Date_Jan01_late, Str_a_b, Str_x, Tpl_news),
      Row(Date_Jan02_early, Str_a, Str_x, Tpl_a_php),
      Row(Date_Jan11, NULL, Str_y, Tpl_news),
      Row(Date_Jan02_early, <<>>, NULL, Tpl_page),
      Row(Date_Jan01_late, None, <<>>, None),
      Row(Date_junk, Str_a, Str_x, NULL),
      Row(Date_Jan11, Str_b, None, <<>>),
      Row(Date_empty, Str_b_blank, Str_y, Tpl_page) }

\* rows for generate-csv-stats.py alone: every shape of publication date
RowsG ==
    { Row(Date_only_Jan01, Str_a, Str_x, Tpl_news),
      Row(Date_Jan11, Str_a, Str_x, Tpl_page),
      Row(Date_Dec31, Str_a_b, Str_x, NULL),
      Row(Date_Mar01, Str_a, Str_y, Tpl_page),
      Row(Date_Feb30, Str_a, Str_x, Tpl_news),
      Row(Date_junk, Str_a, Str_x, Tpl_news),
      Row(Date_empty, Str_a, Str_x, Tpl_news),
      Row(NoneDate, Str_b, Str_x, None),
      Row(Date_blank, Str_a_a, Str_y, Tpl_news),
      Row(Date_Jan02_early, Str_a_a, NULL, Tpl_a_php),
      Row(Date_Jan01_late, Str_b, Str_x, <<>>) }

Init == file \in Files(RowsBoth) /\ InitScripts
Spec == Init /\ [][Next]_vars

InitG == file \in Files(RowsG) /\ InitScripts
SpecG == InitG /\ [][NextG]_vars

-----------------------------------------------------------------------------
(* Vocabulary of the properties *)

\* a grouping field that is neither absent, empty nor "NULL"
Populated(v) == v # None /\ v # <<>> /\ v # NULL

CountOf(stats, k) == IF Find(stats, k) = 0 THEN 0 ELSE stats[Find(stats, k)].count
DatesOf(stats, k) == IF Find(stats, k) = 0 THEN <<>> ELSE stats[Find(stats, k)].dates

RECURSIVE SumCounts(_)
SumCounts(items) == IF items = <<>> THEN 0 ELSE items[1].count + SumCounts(Tail(items))

\* the trimmed, non-empty tokens of a comma-separated list
Tokens(category) == {Strip(Split(category)[i]) : i \in 1..Len(Split(category))} \ {<<>>}
Occurrences(category, k) ==
    Cardinality({i \in 1..Len(Split(category)) : Strip(Split(category)[i]) = k})
DistinctTokens(category) ==
    \A k \in Tokens(category) : Occurrences(category, k) = 1

\* the steps of the two row loops, and the row each has just consumed
A_Stepped == a_i' = a_i + 1
G_Stepped == g_i' = g_i + 1
A_Last == file[a_i]
G_Last == rows[g_i]

\* the bucket k, and no other, gained one row (and the date d, when dated)
BumpAt(old, new, k, dated, d) ==
    /\ Keys(new) = Keys(old) \cup {k}
    /\ Len(new) = Cardinality(Keys(new))
    /\ \A j \in Keys(new) :
          /\ CountOf(new, j) = CountOf(old, j) + (IF j = k THEN 1 ELSE 0)
          /\ DatesOf(new, j) = IF j = k /\ dated THEN Append(DatesOf(old, j), d)
                               ELSE DatesOf(old, j)

-----------------------------------------------------------------------------
(* C1 *)

\* every token's bucket gained exactly one row, and no other bucket changed
SplitEffect(old, new, category) ==
    /\ Keys(new) = Keys(old) \cup Tokens(category)
    /\ \A k \in Keys(new) :
          CountOf(new, k) = CountOf(old, k) + (IF k \in Tokens(category) THEN 1 ELSE 0)

\* C1: in both scripts, a row whose category is a comma-separated list of
\* pairwise distinct tokens adds exactly one to the bucket of each trimmed,
\* non-empty token and changes no other category bucket.
C1_BothScriptsSplitCategory ==
    [][ /\ (G_Stepped /\ Populated(G_Last'.category) /\ DistinctTokens(G_Last'.category))
            => SplitEffect(g_category_stats, g_category_stats', G_Last'.category)
        /\ (A_Stepped /\ A_Parses(A_Last'.data_pubblicazione)
                /\ Populated(A_Last'.category) /\ DistinctTokens(A_Last'.category))
            => SplitEffect(a_category_stats, a_category_stats', A_Last'.category) ]_vars

-----------------------------------------------------------------------------
(* C5 *)

\* the text with a leading "templates/post-" and a trailing ".php" cut off
AffixStripped(template) ==
    SubSeq(template,
           IF StartsWith(template, TemplatePrefix) THEN Len(TemplatePrefix) + 1 ELSE 1,
           IF EndsWith(template, PhpSuffix) THEN Len(template) - Len(PhpSuffix)
           ELSE Len(template))

\* the one bucket of new that has more rows than in old
GainedKeys(old, new) == {k \in Keys(new) : CountOf(new, k) > CountOf(old, k)}

\* C5: in both scripts the bucket a populated template is counted under is
\* the template with the prefix "templates/post-" and the suffix ".php"
\* removed and nothing else altered.
C5_TemplateKeyIsAffixStripped ==
    [][ /\ (G_Stepped /\ Populated(G_Last'.template_articolo))
            => GainedKeys(g_template_stats, g_template_stats')
                   = {AffixStripped(G_Last'.template_articolo)}
        /\ (A_Stepped /\ A_Parses(A_Last'.data_pubblicazione)
                /\ Populated(A_Last'.template_articolo))
            => GainedKeys(a_template_stats, a_template_stats')
                   = {AffixStripped(A_Last'.template_articolo)} ]_vars

-----------------------------------------------------------------------------
(* C3 *)

SomeBumped(old, new, dated, d) == \E k \in Keys(new) : BumpAt(old, new, k, dated, d)

G_CategoryEffect(row) ==
    IF Populated(row.category)
    THEN /\ Keys(g_category_stats') = Keys(g_category_stats) \cup Tokens(row.category)
         /\ \A k \in Keys(g_category_stats') :
               CountOf(g_category_stats', k)
                   = CountOf(g_category_stats, k) + Occurrences(row.category, k)
    ELSE g_category_stats' = g_category_stats
G_GeoEffect(row) ==
    IF Populated(row.geo)
    THEN BumpAt(g_geo_stats, g_geo_stats', row.geo,
                TruthyDate(row.data_pubblicazione), row.data_pubblicazione)
    ELSE g_geo_stats' = g_geo_stats
G_TemplateEffect(row) ==
    IF Populated(row.template_articolo)
    THEN SomeBumped(g_template_stats, g_template_stats',
                    TruthyDate(row.data_pubblicazione), row.data_pubblicazione)
    ELSE g_template_stats' = g_template_stats

A_CategoryEffect(row) ==
    IF Populated(row.category)
    THEN SomeBumped(a_category_stats, a_category_stats', TRUE, A_Parse(row.data_pubblicazione))
    ELSE a_category_stats' = a_category_stats
A_GeoEffect(row) ==
    IF Populated(row.geo)
    THEN BumpAt(a_geo_stats, a_geo_stats', row.geo, TRUE, A_Parse(row.data_pubblicazione))
    ELSE a_geo_stats' = a_geo_stats
A_TemplateEffect(row) ==
    IF Populated(row.template_articolo)
    THEN SomeBumped(a_template_stats, a_template_stats', TRUE, A_Parse(row.data_pubblicazione))
    ELSE a_template_stats' = a_template_stats

SomeFieldMissing(row) ==
    ~Populated(row.category) \/ ~Populated(row.geo) \/ ~Populated(row.template_articolo)

\* C3: in both scripts a row whose grouping field is absent, empty or "NULL"
\* changes nothing in that grouping (no count, no date, no new key), while
\* each of the other two groupings gains the row exactly as its own field
\* says (in analyze-csv.py, for rows whose date parses).
C3_MissingFieldOmitted ==
    [][ /\ (G_Stepped /\ SomeFieldMissing(G_Last'))
            => G_CategoryEffect(G_Last') /\ G_GeoEffect(G_Last') /\ G_TemplateEffect(G_Last')
        /\ (A_Stepped /\ A_Parses(A_Last'.data_pubblicazione) /\ SomeFieldMissing(A_Last'))
            => A_CategoryEffect(A_Last') /\ A_GeoEffect(A_Last') /\ A_TemplateEffect(A_Last') ]_vars

\* both scripts have just consumed a row with one grouping missing and another populated
C3_Witness ==
    /\ a_i >= 1 /\ A_Parses(A_Last.data_pubblicazione)
    /\ A_Last.category = NULL /\ Populated(A_Last.geo)
    /\ CountOf(a_geo_stats, A_Last.geo) >= 1 /\ a_category_stats = <<>>
    /\ g_i >= 1 /\ G_Last.geo = NULL /\ G_Last.category = <<>>
    /\ Populated(G_Last.template_articolo)
    /\ g_template_stats # <<>> /\ g_geo_stats = <<>>

-----------------------------------------------------------------------------
(* C7 *)

SortedDescending(list) ==
    \A i \in 1..(Len(list) - 1) : list[i].count >= list[i + 1].count

\* one entry per bucket, carrying the bucket's count
OneEntryPerBucket(list, stats) ==
    /\ Len(list) = Len(stats)
    /\ \A i \in 1..Len(stats) :
          /\ Cardinality({j \in 1..Len(list) : list[j].name = stats[i].name}) = 1
          /\ \A j \in 1..Len(list) :
                list[j].name = stats[i].name => list[j].count = stats[i].count

\* C7: each result list of calculate_stats and each table of print_table is
\* in count-descending order and holds exactly one entry per bucket key.
C7_SortedByCountDescending ==
    /\ g_pc = "done" =>
          /\ SortedDescending(output.categories)
          /\ OneEntryPerBucket(output.categories, g_category_stats)
          /\ SortedDescending(output.geos)
          /\ OneEntryPerBucket(output.geos, g_geo_stats)
          /\ SortedDescending(output.templates)
          /\ OneEntryPerBucket(output.templates, g_template_stats)
    /\ a_pc = "done" =>
          /\ SortedDescending(a_out[1].lines)
          /\ OneEntryPerBucket(a_out[1].lines, a_category_stats)
          /\ SortedDescending(a_out[2].lines)
          /\ OneEntryPerBucket(a_out[2].lines, a_geo_stats)
          /\ SortedDescending(a_out[3].lines)
          /\ OneEntryPerBucket(a_out[3].lines, a_template_stats)

\* both reports are out and in each the geo buckets had to be reordered
C7_Witness ==
    /\ g_pc = "done" /\ Len(output.geos) >= 2
    /\ output.geos[1].name # g_geo_stats[1].name
    /\ output.geos[1].count > output.geos[2].count
    /\ a_pc = "done" /\ Len(a_out[2].lines) >= 2
    /\ a_out[2].lines[1].name # a_geo_stats[1].name
    /\ a_out[2].lines[1].count > a_out[2].lines[2].count

-----------------------------------------------------------------------------
(* C9 *)

A_BucketsDated(stats) ==
    \A i \in 1..Len(stats) : stats[i].count = Len(stats[i].dates) /\ stats[i].count >= 1

A_NoLineWithoutDate(table) ==
    \A i \in 1..Len(table.lines) : table.lines[i].last_date # NA

C9_EveryBucketDated ==
    /\ A_BucketsDated(a_category_stats)
    /\ A_BucketsDated(a_geo_stats)
    /\ A_BucketsDated(a_template_stats)
    /\ a_pc = "done" =>
          /\ A_NoLineWithoutDate(a_out[1])
          /\ A_NoLineWithoutDate(a_out[2])
          /\ A_NoLineWithoutDate(a_out[3])

C9_UnparseableRowSkipped ==
    (A_Stepped /\ ~A_Parses(A_Last'.data_pubblicazione))
        => UNCHANGED <<a_category_stats, a_geo_stats, a_template_stats>>

\* C9: in analyze-csv.py a row whose date fails to parse leaves the three
\* dictionaries unchanged; so every bucket has as many dates as rows, at
\* least one, and no printed last entry is "N/A".
C9_TableSkipsUndatedRows ==
    []C9_EveryBucketDated /\ [][C9_UnparseableRowSkipped]_vars

\* the tables are printed from a file holding a skipped row with populated fields
C9_Witness ==
    /\ a_pc = "done" /\ a_geo_stats # <<>> /\ a_category_stats # <<>>
    /\ \E i \in 1..Len(file) :
          /\ ~A_Parses(file[i].data_pubblicazione)
          /\ Populated(file[i].geo) /\ Populated(file[i].category)
          /\ file[i].geo \notin Keys(a_geo_stats)

-----------------------------------------------------------------------------
(* Vocabulary of the properties of generate-csv-stats.py *)

\* the bucket a result entry was computed from
BucketOf(stats, entry) == stats[Find(stats, entry.name)]

OrdinalsOf(dates) == {ToOrdinal(ParsedDates(dates)[i]) : i \in 1..Len(ParsedDates(dates))}
MaxOf(S) == CHOOSE x \in S : \A y \in S : y <= x
MinOf(S) == CHOOSE x \in S : \A y \in S : x <= y
\* whole days from the earliest to the latest parseable date of a bucket
DaySpan(dates) == MaxOf(OrdinalsOf(dates)) - MinOf(OrdinalsOf(dates))

Abs(n) == IF n < 0 THEN -n ELSE n

\* a date string the row loop drops or calculate_stats cannot parse
Unparseable(d) == ~TruthyDate(d) \/ ~G_Parses(d)

AllResults(P(_, _)) ==
    /\ \A i \in 1..Len(output.categories) :
          P(output.categories[i], BucketOf(g_category_stats, output.categories[i]))
    /\ \A i \in 1..Len(output.geos) :
          P(output.geos[i], BucketOf(g_geo_stats, output.geos[i]))
    /\ \A i \in 1..Len(output.templates) :
          P(output.templates[i], BucketOf(g_template_stats, output.templates[i]))

SomeResult(P(_, _)) ==
    \/ \E i \in 1..Len(output.categories) :
          P(output.categories[i], BucketOf(g_category_stats, output.categories[i]))
    \/ \E i \in 1..Len(output.geos) :
          P(output.geos[i], BucketOf(g_geo_stats, output.geos[i]))
    \/ \E i \in 1..Len(output.templates) :
          P(output.templates[i], BucketOf(g_template_stats, output.templates[i]))

-----------------------------------------------------------------------------
(* C2 *)

\* "1 every X.X days" with X.X the tenth nearest to span / (count - 1)
IsEvery(frequency, span, divisor) ==
    /\ Len(frequency) = 5
    /\ frequency[1] = "1 every " /\ frequency[3] = "." /\ frequency[5] = " days"
    /\ frequency[2] >= 0 /\ frequency[4] \in 0..9
    /\ 2 * Abs(10 * span - (10 * frequency[2] + frequency[4]) * divisor) <= divisor

C2_FrequencyOf(entry, bucket) ==
    IF Len(ParsedDates(bucket.dates)) < 2 \/ DaySpan(bucket.dates) = 0
    THEN entry.frequency = NA
    ELSE IsEvery(entry.frequency, DaySpan(bucket.dates), bucket.count - 1)

\* C2: calculate_stats reports frequency "N/A" for a bucket with fewer than
\* two parseable dates or with its latest and earliest date on the same day,
\* and otherwise "1 every X.X days" with X.X = (latest - earliest in whole
\* days) / (count - 1) to one decimal, count being the bucket's row count.
C2_Frequency == g_pc = "done" => AllResults(C2_FrequencyOf)

C2_TenDays(entry, bucket) ==
    /\ bucket.count = 2
    /\ bucket.dates = <<Date_only_Jan01, Date_Jan11>>
    /\ entry.frequency = <<"1 every ", 10, ".", 0, " days">>
C2_UndatedRowsDivide(entry, bucket) ==
    /\ bucket.count > Len(ParsedDates(bucket.dates))
    /\ entry.frequency # NA
C2_SingleDate(entry, bucket) ==
    /\ Len(ParsedDates(bucket.dates)) = 1
    /\ entry.frequency = NA

\* the report holds the ten-day example, a bucket with more rows than
\* parseable dates and a bucket with a single date
C2_Witness ==
    /\ g_pc = "done"
    /\ SomeResult(C2_TenDays)
    /\ SomeResult(C2_UndatedRowsDivide)
    /\ SomeResult(C2_SingleDate)

-----------------------------------------------------------------------------
(* C4 *)

RowsWith(P(_)) == Cardinality({i \in 1..Len(file) : P(file[i])})
HasTemplate(row) == Populated(row.template_articolo)
HasGeo(row) == Populated(row.geo)
HasBadDate(row) == Unparseable(row.data_pubblicazione)

\* C4: totalArticles is the number of rows read, whatever their fields; the
\* template counts add up to the number of rows with a populated template,
\* the geo counts to the number of rows with a populated geo, neither more
\* than totalArticles.
C4_TotalArticles ==
    g_pc = "done" =>
        /\ output.totalArticles = Len(file)
        /\ SumCounts(output.templates) = RowsWith(HasTemplate)
        /\ SumCounts(output.templates) <= output.totalArticles
        /\ SumCounts(output.geos) = RowsWith(HasGeo)
        /\ SumCounts(output.geos) <= output.totalArticles

\* a report where rows lack a template, a geo and a parseable date
C4_Witness ==
    /\ g_pc = "done" /\ Len(file) >= 2
    /\ SumCounts(output.templates) >= 1
    /\ SumCounts(output.templates) < output.totalArticles
    /\ SumCounts(output.geos) >= 1
    /\ SumCounts(output.geos) < output.totalArticles
    /\ RowsWith(HasBadDate) >= 1

-----------------------------------------------------------------------------
(* C6 *)

IsLatestOf(lastEntry, dates) ==
    \E i \in 1..Len(ParsedDates(dates)) :
        /\ lastEntry = <<ParsedDates(dates)[i].y, "-", ParsedDates(dates)[i].m, "-",
                         ParsedDates(dates)[i].d>>
        /\ ToOrdinal(ParsedDates(dates)[i]) = MaxOf(OrdinalsOf(dates))

C6_LastEntryOf(entry, bucket) ==
    /\ entry.lastEntry = NA <=> ParsedDates(bucket.dates) = <<>>
    /\ ParsedDates(bucket.dates) # <<>> => IsLatestOf(entry.lastEntry, bucket.dates)

\* C6: lastEntry is "N/A" exactly when none of the bucket's stored date
\* strings parses, and otherwise the latest calendar date among those that do.
C6_LastEntry == g_pc = "done" => AllResults(C6_LastEntryOf)

C6_StoredButUnparsed(entry, bucket) ==
    /\ bucket.dates # <<>>
    /\ entry.lastEntry = NA
C6_LatestNotLast(entry, bucket) ==
    /\ Len(ParsedDates(bucket.dates)) >= 2
    /\ entry.lastEntry # NA
    /\ ~IsLatestOf(entry.lastEntry, <<bucket.dates[Len(bucket.dates)]>>)

\* the report holds a bucket whose stored dates all fail to parse and a
\* bucket whose latest date is not the one stored last
C6_Witness ==
    /\ g_pc = "done"
    /\ SomeResult(C6_StoredButUnparsed)
    /\ SomeResult(C6_LatestNotLast)

-----------------------------------------------------------------------------
(* C8 *)

\* the parseable dates of every bucket are what they were
ParsedDatesKept(old, new) ==
    \A k \in Keys(new) : ParsedDates(DatesOf(new, k)) = ParsedDates(DatesOf(old, k))

C8_Effect(row) ==
    /\ G_CategoryEffect(row) /\ ParsedDatesKept(g_category_stats, g_category_stats')
    /\ Populated(row.geo) =>
          /\ CountOf(g_geo_stats', row.geo) = CountOf(g_geo_stats, row.geo) + 1
          /\ GainedKeys(g_geo_stats, g_geo_stats') = {row.geo}
    /\ ParsedDatesKept(g_geo_stats, g_geo_stats')
    /\ Populated(row.template_articolo) =>
          \E k \in Keys(g_template_stats') :
              /\ CountOf(g_template_stats', k) = CountOf(g_template_stats, k) + 1
              /\ GainedKeys(g_template_stats, g_template_stats') = {k}
    /\ ParsedDatesKept(g_template_stats, g_template_stats')

-----------------------------------------------------------------------------
(* C10 *)

\* the calendar days between the earliest and the latest of a bucket's datetimes
CalendarSpan(dts) ==
    ToOrdinal(SortDates(dts)[Len(dts)]) - ToOrdinal(SortDates(dts)[1])

\* the printed line of a bucket of analyze-csv.py
LineOf(table, k) == CHOOSE l \in {table.lines[i] : i \in 1..Len(table.lines)} : l.name = k

A_SpanIsCalendar(stats, table) ==
    \A i \in 1..Len(stats) :
        Len(stats[i].dates) >= 2 =>
            (LineOf(table, stats[i].name).frequency = <<"< 1 day">>
                <=> CalendarSpan(stats[i].dates) = 0)

\* generate-csv-stats.py reports its zero-span result, "N/A"
G_SpanIsCalendar(entry, bucket) ==
    Len(ParsedDates(bucket.dates)) >= 2 =>
        (entry.frequency = NA <=> DaySpan(bucket.dates) = 0)

\* C10: in both scripts the frequency works on calendar dates: a bucket
\* gets the zero-span result exactly when its earliest and latest entries
\* fall on the same calendar day, whatever their times of day; in
\* particular never when they fall on consecutive days.
C10_SpanIsDateOnly ==
    /\ a_pc = "done" =>
          /\ A_SpanIsCalendar(a_category_stats, a_out[1])
          /\ A_SpanIsCalendar(a_geo_stats, a_out[2])
          /\ A_SpanIsCalendar(a_template_stats, a_out[3])
    /\ g_pc = "done" => AllResults(G_SpanIsCalendar)

=============================================================================
